---- MODULE Spec2Model ----
(***************************************************************************)
(* Offline fuzzy search layer of the ZusammenWachsen app                   *)
(* (utils/FuseSearch.js): query sanitizer, query preprocessor, rate        *)
(* limiter, result ranker and error deduplication.                         *)
(*                                                                         *)
(* A JavaScript string is a sequence of one-character strings.  A          *)
(* JavaScript value is a record [type, str, truthy]: type is the result of *)
(* typeof, str the characters of a string, truthy what !!v yields.         *)
(***************************************************************************)
EXTENDS Integers, Sequences, FiniteSets, TLC

(***************************************************************************)
(* Program constants                                                       *)
(***************************************************************************)
MAX_QUERY_LENGTH == 300
MAX_WORD_COUNT == 30
MIN_QUERY_LENGTH == 1
MAX_REQUESTS_PER_SECOND == 5
MAX_ERROR_CACHE_SIZE == 50
WindowMs == 1000
MaxResults == 25
MaxRest == 24

(***************************************************************************)
(* JavaScript values                                                       *)
(***************************************************************************)
Str(s) == [type |-> "string", str |-> s, truthy |-> (Len(s) > 0)]
null == [type |-> "object", str |-> <<>>, truthy |-> FALSE]
undefined == [type |-> "undefined", str |-> <<>>, truthy |-> FALSE]
zero == [type |-> "number", str |-> <<>>, truthy |-> FALSE]
fortyTwo == [type |-> "number", str |-> <<>>, truthy |-> TRUE]
anObject == [type |-> "object", str |-> <<>>, truthy |-> TRUE]

(***************************************************************************)
(* Characters.  "\f" is U+000C: white space for \s and trim(), and also a  *)
(* member of DANGEROUS_CHARS.                                              *)
(***************************************************************************)
WhiteSpace == {" ", "\t", "\n", "\f"}
DANGEROUS_CHARS == {"<", ">", "&", "\f"}

lowerOf(c) ==
    CASE c = "K" -> "k"
      [] c = "N" -> "n"
      [] c = "B" -> "b"
      [] c = "M" -> "m"
      [] OTHER -> c

toLowerCase(s) == [i \in 1..Len(s) |-> lowerOf(s[i])]

substring(s, from, to) ==
    LET hi == IF to > Len(s) THEN Len(s) ELSE to
    IN  [i \in 1..(hi - from) |-> s[from + i]]

trim(s) ==
    LET solid == {i \in 1..Len(s) : s[i] \notin WhiteSpace}
    IN  IF solid = {} THEN <<>>
        ELSE SubSeq(s, CHOOSE i \in solid : \A j \in solid : i <= j,
                       CHOOSE i \in solid : \A j \in solid : j <= i)

(* s.split(/\s+/): every maximal run of white space is one separator; a    *)
(* separator at the start or the end leaves an empty string there.         *)
RECURSIVE wordsFrom(_, _)
wordsFrom(s, i) ==
    LET stop == CHOOSE j \in i..(Len(s) + 1) :
                    j = Len(s) + 1 \/ s[j] \in WhiteSpace
        rest == {j \in stop..Len(s) : s[j] \notin WhiteSpace}
    IN  <<SubSeq(s, i, stop - 1)>>
        \o (IF rest = {} THEN <<>>
            ELSE wordsFrom(s, CHOOSE j \in rest : \A k \in rest : j <= k))

split(s) ==
    LET t == trim(s)
    IN  IF s = <<>> THEN << <<>> >>
        ELSE (IF s[1] \in WhiteSpace THEN << <<>> >> ELSE <<>>)
             \o (IF t = <<>> THEN <<>> ELSE wordsFrom(t, 1))
             \o (IF s[Len(s)] \in WhiteSpace THEN << <<>> >> ELSE <<>>)

RECURSIVE join(_)
join(words) ==
    IF words = <<>> THEN <<>>
    ELSE IF Len(words) = 1 THEN words[1]
    ELSE words[1] \o <<" ">> \o join(Tail(words))

replaceDangerous(s) == SelectSeq(s, LAMBDA c : c \notin DANGEROUS_CHARS)

includes(q, sub) ==
    \E k \in 0..(Len(q) - Len(sub)) :
        \A i \in 1..Len(sub) : q[k + i] = sub[i]

(***************************************************************************)
(* validateQuery: the query sanitizer                                      *)
(***************************************************************************)
validateQueryNoWordCap(query) ==
    IF query.type # "string" THEN null
    ELSE
      LET q1 == IF Len(query.str) > MAX_QUERY_LENGTH
                THEN substring(query.str, 0, MAX_QUERY_LENGTH)
                ELSE query.str
      IN  IF Len(q1) < MIN_QUERY_LENGTH THEN null
          ELSE Str(trim(replaceDangerous(q1)))

validateQuery(query) ==
    IF query.type # "string" THEN null
    ELSE
      LET q1 == IF Len(query.str) > MAX_QUERY_LENGTH
                THEN substring(query.str, 0, MAX_QUERY_LENGTH)
                ELSE query.str
      IN  IF Len(q1) < MIN_QUERY_LENGTH THEN null
          ELSE
            LET words == split(trim(q1))
                q2 == IF Len(words) > MAX_WORD_COUNT
                      THEN join(SubSeq(words, 1, MAX_WORD_COUNT))
                      ELSE q1
                cleanQuery == replaceDangerous(q2)
            IN  Str(trim(cleanQuery))

(***************************************************************************)
(* Bounds of the model                                                     *)
(***************************************************************************)
NumEntries == 27
StartTime == 5000
MaxRequestCount == 7

(***************************************************************************)
(* Words and the German stopword list (the stopwords-de package): three    *)
(* of the five negation words are on the list, two are not.                *)
(***************************************************************************)
wNicht == <<"n", "i", "c", "h", "t">>
wKein == <<"k", "e", "i", "n">>
wKeine == <<"k", "e", "i", "n", "e">>
wOhne == <<"o", "h", "n", "e">>
wNein == <<"n", "e", "i", "n">>
wMein == <<"m", "e", "i", "n">>
wUnd == <<"u", "n", "d">>
wKind == <<"k", "i", "n", "d">>
wBaby == <<"b", "a", "b", "y">>
wWeint == <<"w", "e", "i", "n", "t">>

stopwords == <<wMein, wUnd, wNicht, wKein, wOhne>>
importantWords == <<wNicht, wKein, wKeine, wOhne, wNein>>

arrayIncludes(arr, x) == \E i \in 1..Len(arr) : arr[i] = x

(***************************************************************************)
(* preprocessQuery: stopword removal that keeps the negations.  throws     *)
(* says that the filtering of the words raises an exception.  The result   *)
(* is the returned string, whether the catch block ran and whether the     *)
(* failure was handed to logDataError (the catch block has no such call).  *)
(***************************************************************************)
preprocessQueryNoNegations(query, throws) ==
    IF ~query.truthy
    THEN [value |-> <<>>, failed |-> FALSE, logged |-> FALSE]
    ELSE IF query.type # "string"
    THEN [value |-> <<>>, failed |-> TRUE, logged |-> FALSE]
    ELSE IF trim(query.str) = <<>>
    THEN [value |-> <<>>, failed |-> FALSE, logged |-> FALSE]
    ELSE
      LET validatedQuery == validateQuery(query)
      IN  IF ~validatedQuery.truthy
          THEN [value |-> <<>>, failed |-> FALSE, logged |-> FALSE]
          ELSE IF throws
          THEN [value |-> toLowerCase(validatedQuery.str), failed |-> TRUE, logged |-> FALSE]
          ELSE
            LET words == split(toLowerCase(validatedQuery.str))
                kept == SelectSeq(words, LAMBDA word :
                           ~arrayIncludes(stopwords, word))
            IN  [value |-> join(kept), failed |-> FALSE, logged |-> FALSE]

preprocessQuery(query, throws) ==
    IF ~query.truthy
    THEN [value |-> <<>>, failed |-> FALSE, logged |-> FALSE]
    ELSE IF query.type # "string"
    THEN [value |-> <<>>, failed |-> TRUE, logged |-> FALSE]
    ELSE IF trim(query.str) = <<>>
    THEN [value |-> <<>>, failed |-> FALSE, logged |-> FALSE]
    ELSE
      LET validatedQuery == validateQuery(query)
      IN  IF ~validatedQuery.truthy
          THEN [value |-> <<>>, failed |-> FALSE, logged |-> FALSE]
          ELSE IF throws
          THEN [value |-> toLowerCase(validatedQuery.str), failed |-> TRUE, logged |-> FALSE]
          ELSE
            LET words == split(toLowerCase(validatedQuery.str))
                kept == SelectSeq(words, LAMBDA word :
                           ~arrayIncludes(stopwords, word)
                           \/ arrayIncludes(importantWords, word))
            IN  [value |-> join(kept), failed |-> FALSE, logged |-> FALSE]

(***************************************************************************)
(* State of the module                                                     *)
(***************************************************************************)
VARIABLES
    corpus,           \* which index_data.json the module was loaded with
    fuse,             \* "Fuse": the matcher was built; "mock": the fallback
    loadReports,      \* the calls of logDataError made while loading
    now,              \* the clock read by Date.now()
    lastRequestTime,  \* start of the current rate window
    requestCount,     \* rate-limit checks counted in the current window
    reportedErrors,   \* the Set of error keys, in insertion order
    sessionFailures,  \* keys of the exceptions caught since the last reset
    call,             \* the last call and what it did (history)
    sanitized,        \* the last direct use of validateQuery (history)
    dedup,            \* the last key offered to the error cache (history)
    sinceReset,       \* searches since the last reset, if any (history)
    allowedTimes,     \* the instants of the searches let through (history)
    savedQuestions,   \* SavedQuestionsContext: the favorites in memory
    storedQuestions,  \* the favorites persisted in AsyncStorage
    pendingWrites,    \* the toggles whose AsyncStorage.setItem is pending
    favoritesCall,    \* the last step of a toggle (history)
    searchQuery,      \* SearchScreen: the text in the search bar
    searchResults,    \* the results held by the screen
    loading,          \* the loading indicator
    lastSubmittedQuery, \* the query named in the header
    timers,           \* the pending setTimeout callbacks of submissions
    screenCall,       \* the last step of the screen (history)
    highlight,        \* FavoriteTabAnimationProvider: the highlight flag
    timeoutRef,       \* timeoutRef.current: a timer id, or 0 for null
    highlightTimers,  \* the pending reset timers of the highlight
    highlightCall,    \* the last step of the highlight (history)
    fontsLoaded,      \* App: the fonts are loaded
    splashMinimumPassed, \* the minimum splash time has passed
    checkingUpdate,   \* the update check is running
    updateRequired,   \* the app is blocked until it is updated
    lastUpdateCheck,  \* AsyncStorage item 'lastUpdateCheck'
    updateCheck,      \* position and outcome of checkForUpdate (history)
    errorCache,       \* logError: its Set reportedErrors, in insertion order
    captured,         \* the keys handed to Sentry.captureException (history)
    logCall           \* the last call of the logger (history)

loadState == <<corpus, fuse, loadReports>>

vars == <<corpus, fuse, loadReports, now, lastRequestTime,
          requestCount, reportedErrors, sessionFailures, call, sanitized,
          dedup, sinceReset, allowedTimes,
          savedQuestions, storedQuestions, pendingWrites, favoritesCall,
          searchQuery, searchResults, loading, lastSubmittedQuery, timers,
          screenCall, highlight, timeoutRef, highlightTimers, highlightCall,
          fontsLoaded, splashMinimumPassed, checkingUpdate, updateRequired,
          lastUpdateCheck, updateCheck, errorCache, captured, logCall>>

favoritesState ==
    <<savedQuestions, storedQuestions, pendingWrites, favoritesCall>>

(* The state of the modules other than the search module.                  *)
screenState ==
    <<searchQuery, searchResults, loading, lastSubmittedQuery, timers,
      screenCall>>

highlightState == <<highlight, timeoutRef, highlightTimers, highlightCall>>

appState ==
    <<fontsLoaded, splashMinimumPassed, checkingUpdate, updateRequired,
      lastUpdateCheck, updateCheck>>

loggerState == <<errorCache, captured, logCall>>

outside ==
    <<favoritesState, screenState, highlightState, appState, loggerState>>

histories == <<dedup, sinceReset, allowedTimes>>

(***************************************************************************)
(* The corpus (assets/data/index_data.json) and the index built from it.   *)
(* An element of the corpus is an entry or null; an entry may lack its     *)
(* SynonymQuestionsIndex field.                                            *)
(***************************************************************************)
goodData ==
    [i \in 1..NumEntries |->
        [kind |-> "entry", hasSynonyms |-> TRUE, QuestionIDIndex |-> i,
         SynonymQuestionsIndex |->
            CASE i = 1 -> << <<"K", "i", "n", "d", " ">> \o wWeint, wBaby >>
              [] i = 2 -> << wKind >>
              [] i = 3 -> << <<"N", "i", "c", "h", "t", " ">> \o wWeint >>
              [] i % 9 = 0 -> << <<"B", "a", "b", "y", " ">> \o wKind >>
              [] OTHER -> << <<"x">> >>]]

missingFieldsData ==
    [i \in 1..NumEntries |->
        IF i \in {2, 4}
        THEN [goodData[i] EXCEPT !.hasSynonyms = FALSE,
                                 !.SynonymQuestionsIndex = <<>>]
        ELSE goodData[i]]

nullEntryData ==
    [i \in 1..NumEntries |->
        IF i = 4
        THEN [kind |-> "null", hasSynonyms |-> FALSE, QuestionIDIndex |-> 0,
              SynonymQuestionsIndex |-> <<>>]
        ELSE missingFieldsData[i]]

Corpora ==
    [good |-> goodData, missingFields |-> missingFieldsData,
     nullEntry |-> nullEntryData]

rawData == Corpora[corpus]

isMalformed(raw) ==
    \E i \in 1..Len(raw) : raw[i].kind = "null" \/ ~raw[i].hasSynonyms

(* rawData.map(...) in its try block: reading a field of null throws and   *)
(* the catch block leaves the empty index; a missing field becomes [].     *)
buildIndexSkipsNull(raw) ==
    [failed |-> FALSE,
     indexData |->
        [i \in 1..Len(raw) |->
            [QuestionIDIndex |-> i,
             SynonymQuestionsIndex |->
                [k \in 1..Len(raw[i].SynonymQuestionsIndex) |->
                    toLowerCase(raw[i].SynonymQuestionsIndex[k])]]]]

buildIndex(raw) ==
    IF \E i \in 1..Len(raw) : raw[i].kind = "null"
    THEN [failed |-> TRUE, indexData |-> <<>>]
    ELSE [failed |-> FALSE,
          indexData |->
            [i \in 1..Len(raw) |->
                [QuestionIDIndex |-> raw[i].QuestionIDIndex,
                 SynonymQuestionsIndex |->
                    IF raw[i].hasSynonyms
                    THEN [k \in 1..Len(raw[i].SynonymQuestionsIndex) |->
                             toLowerCase(raw[i].SynonymQuestionsIndex[k])]
                    ELSE <<>>]]]

(* The index of each corpus, and the one of the loaded module.             *)
loadedIndex == [c \in DOMAIN Corpora |-> buildIndex(Corpora[c])]

indexData == loadedIndex[corpus].indexData

(* new Fuse(indexData, fuseOptions) in its try block: built is the answer  *)
(* of Fuse.js; the catch block installs the fallback matcher.              *)
buildFuseNoFallback(built) == IF built THEN "Fuse" ELSE "unset"

buildFuse(built) == IF built THEN "Fuse" ELSE "mock"

reportsOfLoad(indexFailed, built) ==
    (IF indexFailed THEN <<"indexDataPreprocessing">> ELSE <<>>)
    \o (IF built THEN <<>> ELSE <<"fuseInitialization">>)

(***************************************************************************)
(* The result ranker at the end of searchQuestions.  A matcher result is   *)
(* the position (refIndex) of its item in indexData; two results have the  *)
(* same item exactly when they have the same position.                     *)
(***************************************************************************)
isExact(ref, optimizedQuery) ==
    \E k \in 1..Len(indexData[ref].SynonymQuestionsIndex) :
        includes(indexData[ref].SynonymQuestionsIndex[k], optimizedQuery)

hasExact(results, optimizedQuery) ==
    \E i \in 1..Len(results) : isExact(results[i], optimizedQuery)

slice(arr, n) == SubSeq(arr, 1, IF Len(arr) < n THEN Len(arr) ELSE n)

findExactLast(results, optimizedQuery) ==
    LET hits == {i \in 1..Len(results) : isExact(results[i], optimizedQuery)}
    IN  results[CHOOSE i \in hits : \A j \in hits : j <= i]

findExact(results, optimizedQuery) ==
    LET hits == {i \in 1..Len(results) : isExact(results[i], optimizedQuery)}
    IN  results[CHOOSE i \in hits : \A j \in hits : i <= j]

rankResultsNoRoom(results, optimizedQuery) ==
    IF hasExact(results, optimizedQuery)
    THEN LET exactMatch == findExact(results, optimizedQuery)
         IN  <<exactMatch>>
             \o slice(SelectSeq(results, LAMBDA r : r # exactMatch),
                      MaxResults)
    ELSE slice(results, MaxResults)

rankResultsShort(results, optimizedQuery) ==
    IF hasExact(results, optimizedQuery)
    THEN LET exactMatch == findExact(results, optimizedQuery)
         IN  <<exactMatch>>
             \o slice(SelectSeq(results, LAMBDA r : r # exactMatch), MaxRest)
    ELSE slice(results, MaxRest)

rankResultsFirstPage(results, optimizedQuery) ==
    IF hasExact(slice(results, MaxResults), optimizedQuery)
    THEN LET exactMatch == findExact(results, optimizedQuery)
         IN  <<exactMatch>>
             \o slice(SelectSeq(results, LAMBDA r : r # exactMatch), MaxRest)
    ELSE slice(results, MaxResults)

rankResults(results, optimizedQuery) ==
    IF hasExact(results, optimizedQuery)
    THEN LET exactMatch == findExact(results, optimizedQuery)
         IN  <<exactMatch>>
             \o slice(SelectSeq(results, LAMBDA r : r # exactMatch), MaxRest)
    ELSE slice(results, MaxResults)

(***************************************************************************)
(* Calls                                                                   *)
(***************************************************************************)
noMatcher == [kind |-> "none", results |-> <<>>]

noCall ==
    [op |-> "none", query |-> undefined, allowed |-> TRUE,
     optimizedQuery |-> <<>>, preFailed |-> FALSE, matcher |-> noMatcher,
     exception |-> FALSE, threw |-> FALSE, logged |-> FALSE,
     preLogged |-> FALSE, result |-> <<>>]

(***************************************************************************)
(* checkRateLimit: the window start and the counter after the check made   *)
(* at time t, and the answer of the check.                                 *)
(***************************************************************************)
windowElapsedInclusive(t, last) == t - last >= WindowMs

windowElapsedEveryTick(t, last) == t - last > 0

windowElapsed(t, last) == t - last > WindowMs

checkRateLimitSliding(t, last, count) ==
    LET restart == windowElapsed(t, last)
        count1 == (IF restart THEN 0 ELSE count) + 1
    IN  [lastRequestTime |-> t,
         requestCount |-> count1,
         allowed |-> count1 <= MAX_REQUESTS_PER_SECOND]

checkRateLimitLenient(t, last, count) ==
    LET restart == windowElapsed(t, last)
        count1 == (IF restart THEN 0 ELSE count) + 1
    IN  [lastRequestTime |-> IF restart THEN t ELSE last,
         requestCount |-> count1,
         allowed |-> count1 <= MAX_REQUESTS_PER_SECOND + 1]

checkRateLimit(t, last, count) ==
    LET restart == windowElapsed(t, last)
        count1 == (IF restart THEN 0 ELSE count) + 1
    IN  [lastRequestTime |-> IF restart THEN t ELSE last,
         requestCount |-> count1,
         allowed |-> count1 <= MAX_REQUESTS_PER_SECOND]

(***************************************************************************)
(* The deduplication block of searchQuestions and preprocessQuery: a key   *)
(* not yet in the Set is added, after the oldest key has been deleted when *)
(* the Set is full.                                                        *)
(***************************************************************************)
hasKey(cache, key) == \E i \in 1..Len(cache) : cache[i] = key

rememberErrorDropsNewest(cache, key) ==
    IF hasKey(cache, key) THEN cache
    ELSE Append(IF Len(cache) >= MAX_ERROR_CACHE_SIZE
                THEN SubSeq(cache, 1, Len(cache) - 1)
                ELSE cache, key)

rememberError(cache, key) ==
    IF hasKey(cache, key) THEN cache
    ELSE Append(IF Len(cache) >= MAX_ERROR_CACHE_SIZE THEN Tail(cache)
                ELSE cache, key)

(***************************************************************************)
(* fuse.search: the fallback matcher returns the empty array; what the     *)
(* Fuse.js matcher does is the choice m of the environment, its results    *)
(* being items of the index.                                               *)
(***************************************************************************)
fuseSearch(f, m) ==
    IF f = "mock" THEN [kind |-> "array", results |-> <<>>]
    ELSE IF m.kind = "array"
    THEN [m EXCEPT !.results =
                      SelectSeq(m.results, LAMBDA r : r <= Len(indexData))]
    ELSE m

fuseInitialized(f) == f \in {"Fuse", "mock"}

(***************************************************************************)
(* The try block of searchQuestions after the rate-limit check succeeded.  *)
(* exception: the block was left by an exception; value: the array         *)
(* returned otherwise.                                                     *)
(***************************************************************************)
tryBlockReportsInput(query, cache, f, m, preThrows) ==
    [exception |-> FALSE, value |-> <<>>,
     cache |-> rememberError(cache, "FuseSearch-invalidQuery"),
     optimizedQuery |-> <<>>, preFailed |-> FALSE, preLogged |-> FALSE,
     matcher |-> noMatcher,
     logged |-> ~hasKey(cache, "FuseSearch-invalidQuery")]

tryBlock(query, cache, f, m, preThrows) ==
    IF ~query.truthy \/ query.type # "string"
    THEN [exception |-> FALSE, value |-> <<>>,
          cache |-> rememberError(cache, "FuseSearch-invalidQuery"),
          optimizedQuery |-> <<>>, preFailed |-> FALSE, preLogged |-> FALSE,
          matcher |-> noMatcher, logged |-> FALSE]
    ELSE
      LET pre == preprocessQuery(query, preThrows)
          cache1 == IF pre.failed
                    THEN rememberError(cache, "FuseSearch-preprocessQuery")
                    ELSE cache
          optimizedQuery == pre.value
          base == [exception |-> FALSE, value |-> <<>>, cache |-> cache1,
                   optimizedQuery |-> optimizedQuery,
                   preFailed |-> pre.failed, preLogged |-> pre.logged,
                   matcher |-> noMatcher, logged |-> FALSE]
      IN  IF optimizedQuery = <<>> THEN base
          ELSE IF ~fuseInitialized(f)
          THEN [base EXCEPT
                  !.cache = rememberError(cache1,
                                "FuseSearch-fuseNotInitialized"),
                  !.logged = ~hasKey(cache1, "FuseSearch-fuseNotInitialized")]
          ELSE
            LET results == fuseSearch(f, m)
            IN  IF results.kind = "throw"
                THEN [base EXCEPT !.exception = TRUE, !.matcher = results]
                ELSE IF results.kind # "array"
                THEN [base EXCEPT
                        !.cache = rememberError(cache1,
                                      "FuseSearch-invalidResults"),
                        !.matcher = results]
                ELSE [base EXCEPT
                        !.value = rankResults(results.results,
                                              optimizedQuery),
                        !.matcher = results]

(***************************************************************************)
(* The catch block of searchQuestions: the exception is absorbed, its key  *)
(* is recorded and, when the key is new, handed to logDataError.  In the   *)
(* result, exception says that an exception leaves searchQuestions.        *)
(***************************************************************************)
RECURSIVE textOf(_)
textOf(s) == IF s = <<>> THEN "" ELSE Head(s) \o textOf(Tail(s))

errorKeyOfText(query) == "FuseSearch-searchQuestions-" \o textOf(query.str)

errorKeyOf(query) == "FuseSearch-searchQuestions-" \o query.type

catchBlockRethrow(query, t) == t

catchBlockAlwaysReports(query, t) ==
    IF t.exception
    THEN [t EXCEPT
            !.exception = FALSE,
            !.value = <<>>,
            !.cache = rememberError(t.cache, errorKeyOf(query)),
            !.logged = TRUE]
    ELSE t

catchBlock(query, t) ==
    IF t.exception
    THEN [t EXCEPT
            !.exception = FALSE,
            !.value = <<>>,
            !.cache = rememberError(t.cache, errorKeyOf(query)),
            !.logged = ~hasKey(t.cache, errorKeyOf(query))]
    ELSE t

(***************************************************************************)
(* searchQuestions(query), called at time now.  m is what Fuse.js does     *)
(* when it is asked, preThrows whether the stopword filter fails.          *)
(***************************************************************************)
searchQuestionsValidateFirst(query, m, preThrows) ==
    \E rate \in {IF ~query.truthy \/ query.type # "string"
                      \/ preprocessQuery(query, preThrows).value = <<>>
                  THEN [lastRequestTime |-> lastRequestTime,
                        requestCount |-> requestCount, allowed |-> TRUE]
                  ELSE checkRateLimit(now, lastRequestTime, requestCount)} :
        /\ rate.requestCount <= MaxRequestCount
        /\ lastRequestTime' = rate.lastRequestTime
        /\ requestCount' = rate.requestCount
        /\ IF ~rate.allowed
           THEN /\ reportedErrors' = reportedErrors
                /\ sessionFailures' = sessionFailures
                /\ call' = [noCall EXCEPT !.op = "search", !.query = query,
                                          !.allowed = FALSE]
           ELSE \E t \in {tryBlock(query, reportedErrors, fuse, m,
                                   preThrows)} :
                  \E r \in {catchBlock(query, t)} :
                    /\ reportedErrors' = r.cache
                    /\ sessionFailures' =
                          IF t.exception
                          THEN sessionFailures \cup {errorKeyOf(query)}
                          ELSE sessionFailures
                    /\ call' = [op |-> "search", query |-> query,
                                allowed |-> TRUE,
                                optimizedQuery |-> r.optimizedQuery,
                                preFailed |-> r.preFailed,
                                matcher |-> r.matcher,
                                exception |-> t.exception,
                                threw |-> r.exception,
                                logged |-> r.logged,
                                preLogged |-> r.preLogged,
                                result |-> r.value]
        /\ UNCHANGED <<now, sanitized>>
        /\ UNCHANGED loadState

searchQuestions(query, m, preThrows) ==
    \E rate \in {checkRateLimit(now, lastRequestTime, requestCount)} :
        /\ rate.requestCount <= MaxRequestCount
        /\ lastRequestTime' = rate.lastRequestTime
        /\ requestCount' = rate.requestCount
        /\ IF ~rate.allowed
           THEN /\ reportedErrors' = reportedErrors
                /\ sessionFailures' = sessionFailures
                /\ call' = [noCall EXCEPT !.op = "search", !.query = query,
                                          !.allowed = FALSE]
           ELSE \E t \in {tryBlock(query, reportedErrors, fuse, m,
                                   preThrows)} :
                  \E r \in {catchBlock(query, t)} :
                    /\ reportedErrors' = r.cache
                    /\ sessionFailures' =
                          IF t.exception
                          THEN sessionFailures \cup {errorKeyOf(query)}
                          ELSE sessionFailures
                    /\ call' = [op |-> "search", query |-> query,
                                allowed |-> TRUE,
                                optimizedQuery |-> r.optimizedQuery,
                                preFailed |-> r.preFailed,
                                matcher |-> r.matcher,
                                exception |-> t.exception,
                                threw |-> r.exception,
                                logged |-> r.logged,
                                preLogged |-> r.preLogged,
                                result |-> r.value]
        /\ UNCHANGED <<now, sanitized>>
        /\ UNCHANGED loadState

(***************************************************************************)
(* resetFuseSearchErrors                                                   *)
(***************************************************************************)
resetCacheOnly ==
    /\ reportedErrors' = <<>>
    /\ sessionFailures' = {}
    /\ call' = [noCall EXCEPT !.op = "reset"]
    /\ UNCHANGED <<now, lastRequestTime, requestCount, sanitized>>
    /\ UNCHANGED loadState

resetFuseSearchErrors ==
    /\ reportedErrors' = <<>>
    /\ requestCount' = 0
    /\ lastRequestTime' = 0
    /\ sessionFailures' = {}
    /\ call' = [noCall EXCEPT !.op = "reset"]
    /\ UNCHANGED <<now, sanitized>>
    /\ UNCHANGED loadState

(***************************************************************************)
(* The clock: Date.now() never runs backwards and jumps to one of the      *)
(* instants around the ends of the first two rate windows.                 *)
(***************************************************************************)
Offsets ==
    {0, 1, WindowMs, WindowMs + 1, 2 * WindowMs + 1, 2 * WindowMs + 2}

Instants == {StartTime + o : o \in Offsets}

Tick ==
    /\ \E t \in Instants : t > now /\ now' = t
    /\ call' = [noCall EXCEPT !.op = "tick"]
    /\ UNCHANGED <<lastRequestTime, requestCount, reportedErrors,
                   sessionFailures, sanitized>>
    /\ UNCHANGED loadState
    /\ UNCHANGED histories
    /\ UNCHANGED outside

(***************************************************************************)
(* Inputs                                                                  *)
(***************************************************************************)
Rot(s, n) == [i \in 1..n |-> ((s + i - 2) % NumEntries) + 1]

arrayOf(results) == [kind |-> "array", results |-> results]
matcherThrows == [kind |-> "throw", results |-> <<>>]
matcherNonArray == [kind |-> "nonarray", results |-> <<>>]

qKind == Str(wKind)
qMeinKind == Str(<<"M", "e", "i", "n", " ">> \o wKind)
qKindWeint == Str(<<"K", "i", "n", "d", " ", " ">> \o wWeint)
qNichtWeint == Str(wNicht \o <<"\t">> \o wWeint \o <<" ">>)
qBaby == Str(<<"<">> \o wBaby \o <<">">>)
qUnd == Str(wUnd)
qNone == Str(<<"z">>)

SessionQueries ==
    {undefined, fortyTwo, Str(<<>>), Str(<<"<">>), qUnd, qMeinKind}

SessionOutcomes ==
    {matcherThrows, matcherNonArray, arrayOf(<<4, 2, 1>>),
     arrayOf(Rot(3, NumEntries - 1))}

(* The environment is asked only by a call that can reach the matcher or   *)
(* the stopword filter: a string that is not blank.                        *)
reachesFilter(query) ==
    query.type = "string" /\ trim(query.str) # <<>>

(* The matcher is asked only when it was built and the preprocessed query  *)
(* is not empty.                                                           *)
reachesMatcher(query, preThrows) ==
    /\ fuseInitialized(fuse)
    /\ reachesFilter(query)
    /\ preprocessQuery(query, preThrows).value # <<>>

RankQueries ==
    {qKind, qMeinKind, qKindWeint, qNichtWeint, qBaby, qUnd, qNone}

RankOutcomes ==
    {matcherThrows, matcherNonArray}
    \cup {arrayOf(Rot(s, n)) : s \in 1..NumEntries, n \in 0..NumEntries}

noSanitized == [op |-> "none", input |-> undefined, output |-> null]

(***************************************************************************)
(* The session: searches, clock ticks and resets in any order.             *)
(***************************************************************************)
(***************************************************************************)
(* SavedQuestionsContext: the favorites.  savedQuestions maps a question   *)
(* to its saved flag (a question that is not a key of the object is not    *)
(* saved).  A call of toggleSaveQuestion runs up to its await; the write   *)
(* it started is then resolved or rejected by AsyncStorage.  A pending     *)
(* write keeps what the call holds: the savedQuestions of the render that  *)
(* made the call and the object it wrote.  Pending writes end in any       *)
(* order.                                                                  *)
(***************************************************************************)
Questions == {"q1", "q2"}

MaxPending == 2

noFavoritesCall == [op |-> "none", questionId |-> "q1", feedback |-> "none"]

InitFavorites ==
    /\ savedQuestions = [q \in Questions |-> FALSE]
    /\ storedQuestions = [q \in Questions |-> FALSE]
    /\ pendingWrites = <<>>
    /\ favoritesCall = noFavoritesCall

toggleSaveQuestion(questionId) ==
    LET updatedSavedQuestions ==
            [savedQuestions EXCEPT ![questionId] = ~savedQuestions[questionId]]
    IN  /\ Len(pendingWrites) < MaxPending
        /\ savedQuestions' = updatedSavedQuestions
        /\ pendingWrites' = Append(pendingWrites,
              [questionId |-> questionId, savedQuestions |-> savedQuestions,
               updatedSavedQuestions |-> updatedSavedQuestions])
        /\ favoritesCall' = [op |-> "toggle", questionId |-> questionId,
                             feedback |-> "none"]
        /\ UNCHANGED storedQuestions

withoutWrite(writes, i) ==
    SubSeq(writes, 1, i - 1) \o SubSeq(writes, i + 1, Len(writes))

(* await AsyncStorage.setItem(...) returns.                                *)
setItemResolves(i) ==
    /\ storedQuestions' = pendingWrites[i].updatedSavedQuestions
    /\ pendingWrites' = withoutWrite(pendingWrites, i)
    /\ favoritesCall' = [op |-> "resolved",
                         questionId |-> pendingWrites[i].questionId,
                         feedback |-> "none"]
    /\ UNCHANGED savedQuestions

(* await AsyncStorage.setItem(...) throws: the catch blocks.  quota says   *)
(* that the error is a quota error.                                        *)
setItemRejects(i, quota) ==
    /\ savedQuestions' = pendingWrites[i].savedQuestions
    /\ pendingWrites' = withoutWrite(pendingWrites, i)
    /\ favoritesCall' = [op |-> "rejected",
                         questionId |-> pendingWrites[i].questionId,
                         feedback |-> IF quota THEN "alert" ELSE "logged"]
    /\ UNCHANGED storedQuestions

(***************************************************************************)
(* SearchScreen.  A submission starts a timer of 800 ms whose callback     *)
(* searches the text the submitting render held; a pending timer keeps     *)
(* that text.  Timers of equal delay expire in the order they were set,    *)
(* at their due time or later.                                             *)
(***************************************************************************)
DebounceMs == 800

MaxTimers == 2

TypedTexts == {<<>>, <<" ">>, wKind, wBaby}

noScreenCall == [op |-> "none", searchQuery |-> <<>>, submittedAt |-> 0]

InitScreen ==
    /\ searchQuery = <<>>
    /\ searchResults = <<>>
    /\ loading = FALSE
    /\ lastSubmittedQuery = <<>>
    /\ timers = <<>>
    /\ screenCall = noScreenCall

handleSearchInput(query) ==
    /\ searchQuery' = query
    /\ lastSubmittedQuery' = IF query = <<>> THEN <<>> ELSE lastSubmittedQuery
    /\ screenCall' = [op |-> "input", searchQuery |-> query,
                      submittedAt |-> 0]
    /\ UNCHANGED <<searchResults, loading, timers>>

handleSubmitSearch ==
    /\ trim(searchQuery) # <<>>
    /\ Len(timers) < MaxTimers
    /\ loading' = TRUE
    /\ lastSubmittedQuery' = searchQuery
    /\ timers' = Append(timers, [searchQuery |-> searchQuery,
                                 submittedAt |-> now,
                                 due |-> now + DebounceMs])
    /\ screenCall' = [op |-> "submit", searchQuery |-> searchQuery,
                      submittedAt |-> now]
    /\ UNCHANGED <<searchQuery, searchResults>>

(* What the matcher answers to a text: the screen is studied with a        *)
(* matcher that works.                                                     *)
matchOf(query) ==
    IF query = wKind THEN arrayOf(<<4, 2, 1>>) ELSE arrayOf(<<9, 3>>)

(* The callback of the oldest pending timer.                               *)
searchTimeout ==
    /\ timers # <<>>
    /\ now >= timers[1].due
    /\ searchQuestions(Str(timers[1].searchQuery),
                       matchOf(timers[1].searchQuery), FALSE)
    /\ searchResults' = IF call'.threw THEN <<>> ELSE call'.result
    /\ loading' = FALSE
    /\ timers' = Tail(timers)
    /\ screenCall' = [op |-> "search", searchQuery |-> timers[1].searchQuery,
                      submittedAt |-> timers[1].submittedAt]
    /\ UNCHANGED <<searchQuery, lastSubmittedQuery>>

handleClearSearch ==
    /\ searchQuery' = <<>>
    /\ searchResults' = <<>>
    /\ lastSubmittedQuery' = <<>>
    /\ screenCall' = [op |-> "clear", searchQuery |-> <<>>,
                      submittedAt |-> 0]
    /\ UNCHANGED <<loading, timers>>

(***************************************************************************)
(* FavoriteTabAnimationProvider: triggerHighlight and its reset timer.     *)
(* A pending timer is its id and the instant it is due; timeoutRef holds   *)
(* the id of a timer, or 0 for null.  The clock of this component jumps to *)
(* instants around the ends of the delays.                                 *)
(***************************************************************************)
HighlightMs == 800

MaxTriggers == 3

HighlightOffsets ==
    {0, 1, HighlightMs, HighlightMs + 1, 2 * HighlightMs, 2 * HighlightMs + 1}

HighlightInstants == {StartTime + o : o \in HighlightOffsets}

LastInstant ==
    CHOOSE t \in HighlightInstants : \A u \in HighlightInstants : u <= t

InitHighlight ==
    /\ highlight = FALSE
    /\ timeoutRef = 0
    /\ highlightTimers = {}
    /\ highlightCall = [op |-> "none", at |-> 0, triggers |-> 0]

clearTimeout(pending, id) == {timer \in pending : timer.id # id}

triggerHighlightKeepsTimer ==
    /\ highlightCall.triggers < MaxTriggers
    /\ now + HighlightMs <= LastInstant
    /\ highlight' = TRUE
    /\ timeoutRef' = highlightCall.triggers + 1
    /\ highlightTimers' =
          highlightTimers
              \cup {[id |-> highlightCall.triggers + 1,
                     due |-> now + HighlightMs]}
    /\ highlightCall' = [op |-> "trigger", at |-> now,
                         triggers |-> highlightCall.triggers + 1]

triggerHighlight ==
    /\ highlightCall.triggers < MaxTriggers
    /\ now + HighlightMs <= LastInstant
    /\ highlight' = TRUE
    /\ timeoutRef' = highlightCall.triggers + 1
    /\ highlightTimers' =
          (IF timeoutRef # 0 THEN clearTimeout(highlightTimers, timeoutRef)
           ELSE highlightTimers)
              \cup {[id |-> highlightCall.triggers + 1,
                     due |-> now + HighlightMs]}
    /\ highlightCall' = [op |-> "trigger", at |-> now,
                         triggers |-> highlightCall.triggers + 1]

(* The callback of a pending timer, at its due time or later.              *)
highlightTimeout(timer) ==
    /\ now >= timer.due
    /\ highlight' = FALSE
    /\ timeoutRef' = 0
    /\ highlightTimers' = highlightTimers \ {timer}
    /\ highlightCall' = [highlightCall EXCEPT !.op = "timeout"]

(***************************************************************************)
(* The clock of the highlight.                                             *)
TickHighlight ==
    /\ \E t \in HighlightInstants : t > now /\ now' = t
    /\ call' = [noCall EXCEPT !.op = "tick"]
    /\ UNCHANGED <<lastRequestTime, requestCount, reportedErrors,
                   sessionFailures, sanitized>>
    /\ UNCHANGED loadState
    /\ UNCHANGED histories
    /\ UNCHANGED outside

(***************************************************************************)
(* App: the update check at startup.  The item 'lastUpdateCheck' of        *)
(* AsyncStorage outlives the launches of the app; it is absent after       *)
(* installation.  checkForUpdate runs when the fonts are loaded: the       *)
(* server answers or the request fails, and on a failure the stored check  *)
(* is read, which AsyncStorage or JSON.parse may refuse.                   *)
(***************************************************************************)
MAX_OFFLINE_DAYS == 7

DayMs == 1000 * 60 * 60 * 24

MaxLaunches == 3

AppOffsets ==
    {0, 1, MAX_OFFLINE_DAYS * DayMs, MAX_OFFLINE_DAYS * DayMs + 1}

AppInstants == {StartTime + o : o \in AppOffsets}

noStoredCheck == [kind |-> "none", timestamp |-> 0, versionOk |-> FALSE]

noUpdateCheck ==
    [step |-> "idle", launches |-> 1, reached |-> FALSE,
     storage |-> "none", checkedAt |-> 0]

InitApp ==
    /\ fontsLoaded = FALSE
    /\ splashMinimumPassed = FALSE
    /\ checkingUpdate = TRUE
    /\ updateRequired = FALSE
    /\ lastUpdateCheck = noStoredCheck
    /\ updateCheck = noUpdateCheck

(* The app is started again: the component state is new, the storage is    *)
(* kept.                                                                   *)
launch ==
    /\ updateCheck.step = "done"
    /\ updateCheck.launches < MaxLaunches
    /\ fontsLoaded' = FALSE
    /\ splashMinimumPassed' = FALSE
    /\ checkingUpdate' = TRUE
    /\ updateRequired' = FALSE
    /\ updateCheck' = [noUpdateCheck EXCEPT
                          !.launches = updateCheck.launches + 1]
    /\ UNCHANGED lastUpdateCheck

(* loadFonts ends, with or without an error: the effect starts             *)
(* checkForUpdate.                                                         *)
loadFonts ==
    /\ ~fontsLoaded
    /\ fontsLoaded' = TRUE
    /\ updateCheck' = [updateCheck EXCEPT !.step = "fetch"]
    /\ UNCHANGED <<splashMinimumPassed, checkingUpdate, updateRequired,
                   lastUpdateCheck>>

splashTimeout ==
    /\ ~splashMinimumPassed
    /\ splashMinimumPassed' = TRUE
    /\ UNCHANGED <<fontsLoaded, checkingUpdate, updateRequired,
                   lastUpdateCheck, updateCheck>>

(* The try block: the server answered; versionOk says that no update is    *)
(* forced on this version; setItemThrows that the check could not be       *)
(* stored, which leads to the catch block.                                 *)
checkForUpdateTry(versionOk, setItemThrows) ==
    /\ updateCheck.step = "fetch"
    /\ IF setItemThrows
       THEN /\ updateCheck' = [updateCheck EXCEPT !.step = "catch",
                                                  !.reached = TRUE]
            /\ UNCHANGED <<lastUpdateCheck, updateRequired, checkingUpdate>>
       ELSE /\ lastUpdateCheck' = [kind |-> "saved", timestamp |-> now,
                                   versionOk |-> versionOk]
            /\ updateRequired' = IF versionOk THEN updateRequired ELSE TRUE
            /\ checkingUpdate' = FALSE
            /\ updateCheck' = [updateCheck EXCEPT !.step = "done",
                                                  !.reached = TRUE]
    /\ UNCHANGED <<fontsLoaded, splashMinimumPassed>>

(* fetch or response.json() throws.                                        *)
fetchThrows ==
    /\ updateCheck.step = "fetch"
    /\ updateCheck' = [updateCheck EXCEPT !.step = "catch"]
    /\ UNCHANGED <<fontsLoaded, splashMinimumPassed, checkingUpdate,
                   updateRequired, lastUpdateCheck>>

(* daysOffline > MAX_OFFLINE_DAYS, with daysOffline the quotient of the    *)
(* age in ms and the ms of a day.                                          *)
tooLongOffline(t, timestamp) == t - timestamp > MAX_OFFLINE_DAYS * DayMs

offlineBlocks(saved, t) ==
    IF saved.kind = "none" THEN TRUE
    ELSE ~saved.versionOk \/ tooLongOffline(t, saved.timestamp)

(* The catch block and finally: readable says that getItem and JSON.parse  *)
(* succeed; if not, the inner catch only logs the error.                   *)
checkForUpdateCatch(readable) ==
    /\ updateCheck.step = "catch"
    /\ updateRequired' =
          IF readable /\ offlineBlocks(lastUpdateCheck, now) THEN TRUE
          ELSE updateRequired
    /\ checkingUpdate' = FALSE
    /\ updateCheck' = [updateCheck EXCEPT
                          !.step = "done",
                          !.storage = IF readable THEN "read"
                                      ELSE "unreadable",
                          !.checkedAt = now]
    /\ UNCHANGED <<fontsLoaded, splashMinimumPassed, lastUpdateCheck>>

(* The render gates: the splash screen, the blank view, the content.       *)
navigationRendered ==
    /\ ~(~fontsLoaded \/ checkingUpdate \/ ~splashMinimumPassed)
    /\ ~updateRequired

(* The clock of the app: instants around the end of the offline period.    *)
TickApp ==
    /\ \E t \in AppInstants : t > now /\ now' = t
    /\ call' = [noCall EXCEPT !.op = "tick"]
    /\ UNCHANGED <<lastRequestTime, requestCount, reportedErrors,
                   sessionFailures, sanitized>>
    /\ UNCHANGED loadState
    /\ UNCHANGED histories
    /\ UNCHANGED outside

(***************************************************************************)
(* logError.js.  An error is its name and its message, a message a         *)
(* sequence of words; the key of an error is its name, a hyphen and the    *)
(* anonymized message.  The logger has a Set reportedErrors of its own     *)
(* (errorCache), of 500 keys at most.  sentryThrows says that a call of    *)
(* Sentry fails, which logError absorbs.                                   *)
(***************************************************************************)
LOGGER_MAX_ERROR_CACHE_SIZE == 500

UserIds == {"user_7", "user_8"}

anonymizeErrorMessage(message) ==
    [i \in 1..Len(message) |->
        IF message[i] \in UserIds THEN "user_[ID]" ELSE message[i]]

errorKey(error) == <<error.name, "-">> \o anonymizeErrorMessage(error.message)

noLogCall ==
    [op |-> "none", key |-> <<>>, critical |-> FALSE,
     allowDuplicates |-> FALSE, captured |-> FALSE]

InitLogger ==
    /\ errorCache = <<>>
    /\ captured = <<>>
    /\ logCall = noLogCall

(* reportedErrors.add(key) after the oldest key was deleted from a full    *)
(* Set.                                                                    *)
admitKey(cache, key) ==
    LET capped == IF Len(cache) >= LOGGER_MAX_ERROR_CACHE_SIZE
                  THEN Tail(cache) ELSE cache
    IN  IF hasKey(capped, key) THEN capped ELSE Append(capped, key)

logErrorRecordsOnly(key, isCritical, allowDuplicates, sentryThrows) ==
    /\ errorCache' =
          IF isCritical THEN admitKey(errorCache, key) ELSE errorCache
    /\ logCall' = [op |-> "logError", key |-> key, critical |-> isCritical,
                   allowDuplicates |-> allowDuplicates,
                   captured |-> isCritical /\ ~sentryThrows]

logError(key, isCritical, allowDuplicates, sentryThrows) ==
    LET skipped == (~allowDuplicates /\ hasKey(errorCache, key))
                       \/ ~isCritical
    IN  /\ errorCache' =
              IF skipped THEN errorCache ELSE admitKey(errorCache, key)
        /\ logCall' = [op |-> "logError", key |-> key,
                       critical |-> isCritical,
                       allowDuplicates |-> allowDuplicates,
                       captured |-> ~skipped /\ ~sentryThrows]

logDataErrorAllowsDuplicates(error, sentryThrows) ==
    logError(errorKey(error), TRUE, TRUE, sentryThrows)

(* logDataError: tagged critical, duplicates not allowed.                  *)
logDataError(error, sentryThrows) ==
    logError(errorKey(error), TRUE, FALSE, sentryThrows)

resetErrorSession ==
    /\ errorCache' = <<>>
    /\ logCall' = [noLogCall EXCEPT !.op = "reset"]

noDedup == [op |-> "none", key |-> 0, reported |-> FALSE, admitted |-> <<>>]

NoReset == [happened |-> FALSE, throttled |-> FALSE, attempts |-> 0]

(* The state after the module has been loaded.                             *)
Init ==
    /\ corpus \in DOMAIN Corpora
    /\ \E built \in BOOLEAN :
          /\ fuse = buildFuse(built)
          /\ loadReports = reportsOfLoad(loadedIndex[corpus].failed, built)
    /\ now = StartTime
    /\ lastRequestTime = 0
    /\ requestCount = 0
    /\ reportedErrors = <<>>
    /\ sessionFailures = {}
    /\ call = noCall
    /\ sanitized = noSanitized
    /\ dedup = noDedup
    /\ sinceReset = NoReset
    /\ allowedTimes = <<>>
    /\ InitFavorites
    /\ InitScreen
    /\ InitHighlight
    /\ InitApp
    /\ InitLogger

Search ==
    /\ \E query \in SessionQueries :
          \E preThrows \in IF reachesFilter(query) THEN BOOLEAN
                           ELSE {FALSE} :
            \E m \in IF reachesMatcher(query, preThrows) THEN SessionOutcomes
                      ELSE {noMatcher} :
              searchQuestions(query, m, preThrows)
    /\ UNCHANGED histories
    /\ UNCHANGED outside

Reset == resetFuseSearchErrors /\ UNCHANGED histories /\ UNCHANGED outside

Next == Search \/ Tick \/ Reset

(* The module loaded with the well-formed corpus.                          *)
InitGood == Init /\ corpus = "good"

Spec == InitGood /\ [][Next]_vars

(***************************************************************************)
(* A session of a module loaded with any of the corpora.                   *)
(***************************************************************************)
LoadQueries == {undefined, qKind}

SearchLoaded ==
    /\ \E query \in LoadQueries, m \in SessionOutcomes,
          preThrows \in BOOLEAN :
            /\ (preThrows \/ m # matcherThrows) => reachesFilter(query)
            /\ searchQuestions(query, m, preThrows)
    /\ UNCHANGED histories
    /\ UNCHANGED outside

NextLoad == SearchLoaded \/ Reset

SpecLoad == Init /\ [][NextLoad]_vars

(***************************************************************************)
(* One search of a freshly loaded module, over many queries and many       *)
(* matcher results.                                                        *)
(***************************************************************************)
SearchOnce ==
    /\ call.op = "none"
    /\ \E query \in RankQueries, m \in RankOutcomes, preThrows \in BOOLEAN :
          searchQuestions(query, m, preThrows)
    /\ UNCHANGED histories
    /\ UNCHANGED outside

NextRank == SearchOnce

SpecRank == InitGood /\ [][NextRank]_vars

(***************************************************************************)
(* One search of a freshly loaded module over queries made of stopwords,   *)
(* negations and other words.                                              *)
(***************************************************************************)
Vocabulary ==
    {wNicht, wKein, wKeine, wOhne, wNein, wMein, wUnd, wKind,
     <<"N", "i", "c", "h", "t">>}

Separators == {<<" ">>, <<"\t", " ">>}

TextQueries ==
    {Str(w) : w \in Vocabulary}
    \cup {Str(v \o sep \o w) : v \in Vocabulary, w \in Vocabulary,
                               sep \in Separators}
    \cup {Str(<<" ">> \o wMein \o <<"<", " ">> \o w \o <<"\f">>) :
             w \in Vocabulary}

SearchText ==
    /\ call.op = "none"
    /\ \E query \in TextQueries, preThrows \in BOOLEAN :
          searchQuestions(query, arrayOf(<<4, 2, 1>>), preThrows)
    /\ UNCHANGED histories
    /\ UNCHANGED outside

NextPre == SearchText

SpecPre == InitGood /\ [][NextPre]_vars

(***************************************************************************)
(* The sanitizer used on its own: validateQuery on any value, and on its   *)
(* own output.                                                             *)
(***************************************************************************)
MaxLen == 3

SanitizerChars == {"a", " ", "<", "\f"}

RECURSIVE StringsUpTo(_)
StringsUpTo(n) ==
    IF n = 0 THEN {<<>>}
    ELSE LET shorter == StringsUpTo(n - 1)
         IN  shorter \cup {Append(s, c) : s \in shorter, c \in SanitizerChars}

longWord == [i \in 1..(MAX_QUERY_LENGTH + 1) |-> "a"]
manyWords ==
    [i \in 1..(2 * MAX_WORD_COUNT + 1) |-> IF i % 2 = 1 THEN "a" ELSE " "]

longSentence ==
    [i \in 1..(MAX_QUERY_LENGTH + 2) |-> IF i % 5 = 0 THEN " " ELSE "a"]

SanitizerInputs ==
    {undefined, null, fortyTwo, anObject, zero}
    \cup {Str(s) : s \in StringsUpTo(MaxLen)}
    \cup {Str(longWord), Str(manyWords), Str(<<"<", " ">> \o manyWords),
          Str(longSentence)}

Sanitize ==
    /\ \E x \in SanitizerInputs :
          sanitized' = [op |-> "validateQuery", input |-> x,
                        output |-> validateQuery(x)]
    /\ UNCHANGED <<now, lastRequestTime, requestCount, reportedErrors,
                   sessionFailures, call>>
    /\ UNCHANGED loadState
    /\ UNCHANGED histories
    /\ UNCHANGED outside

Refeed ==
    /\ sanitized.op = "validateQuery"
    /\ sanitized.output.type = "string"
    /\ sanitized' = [op |-> "refeed", input |-> sanitized.output,
                     output |-> validateQuery(sanitized.output)]
    /\ UNCHANGED <<now, lastRequestTime, requestCount, reportedErrors,
                   sessionFailures, call>>
    /\ UNCHANGED loadState
    /\ UNCHANGED histories
    /\ UNCHANGED outside

NextSanitize == Sanitize \/ Refeed

SpecSanitize == InitGood /\ [][NextSanitize]_vars

(***************************************************************************)
(* The deduplication block on its own, offered as many distinct error keys *)
(* as it takes to fill the Set: key n is the n-th distinct key.  A step    *)
(* offers the next unseen key, the oldest or the newest key of the Set, or *)
(* a key that has been deleted from it.                                    *)
(***************************************************************************)
MaxKeys == 52

MaxAdmitted == 54

cachedKeys(cache) == {cache[i] : i \in 1..Len(cache)}

DedupKeys ==
    LET known == cachedKeys(dedup.admitted)
    IN  ({Cardinality(known) + 1} \cap 1..MaxKeys)
        \cup (known \ cachedKeys(reportedErrors))
        \cup (IF reportedErrors = <<>> THEN {}
              ELSE {reportedErrors[1], reportedErrors[Len(reportedErrors)]})

reportError(key) ==
    /\ hasKey(reportedErrors, key) \/ Len(dedup.admitted) < MaxAdmitted
    /\ reportedErrors' = rememberError(reportedErrors, key)
    /\ dedup' = [op |-> "report", key |-> key,
                 reported |-> ~hasKey(reportedErrors, key),
                 admitted |-> IF hasKey(reportedErrors, key)
                              THEN dedup.admitted
                              ELSE Append(dedup.admitted, key)]
    /\ UNCHANGED <<now, lastRequestTime, requestCount, sessionFailures, call,
                   sanitized, sinceReset, allowedTimes>>
    /\ UNCHANGED loadState
    /\ UNCHANGED outside

Report == \E key \in DedupKeys : reportError(key)

NextDedup == Report

SpecDedup == InitGood /\ [][NextDedup]_vars

(***************************************************************************)
(* A session in which the searches made since the last reset are counted,  *)
(* and in which it is recorded whether the reset followed a refused        *)
(* search.                                                                 *)
(***************************************************************************)
MaxSinceReset == 6

ResetQueries == {undefined, qMeinKind}

ResetOutcomes == {matcherThrows, arrayOf(<<4, 2, 1>>)}

SearchSinceReset ==
    /\ \E query \in ResetQueries :
          \E m \in IF reachesMatcher(query, FALSE) THEN ResetOutcomes
                    ELSE {noMatcher} :
            searchQuestions(query, m, FALSE)
    /\ sinceReset' =
          IF sinceReset.happened /\ sinceReset.attempts < MaxSinceReset
          THEN [sinceReset EXCEPT !.attempts = @ + 1]
          ELSE sinceReset
    /\ UNCHANGED <<dedup, allowedTimes>>
    /\ UNCHANGED outside

ResetSession ==
    /\ resetFuseSearchErrors
    /\ sinceReset' = [happened |-> TRUE,
                      throttled |-> call.op = "search" /\ ~call.allowed,
                      attempts |-> 0]
    /\ UNCHANGED <<dedup, allowedTimes>>
    /\ UNCHANGED outside

NextReset == SearchSinceReset \/ ResetSession \/ Tick

SpecReset == InitGood /\ [][NextReset]_vars

(***************************************************************************)
(* The rate limiter under a burst of searches with one valid query; the    *)
(* instants of the searches it lets through are recorded.                  *)
(***************************************************************************)
MaxAllowed == 10

SearchBurst ==
    /\ Len(allowedTimes) < MaxAllowed
    /\ searchQuestions(qKind, arrayOf(<<4, 2, 1>>), FALSE)
    /\ allowedTimes' = IF call'.allowed THEN Append(allowedTimes, now)
                       ELSE allowedTimes
    /\ UNCHANGED <<dedup, sinceReset>>
    /\ UNCHANGED outside

NextRate == SearchBurst \/ Tick

SpecRate == InitGood /\ [][NextRate]_vars

(***************************************************************************)
(* The rate limiter under bursts and resets: sinceReset counts the         *)
(* searches let through since the last reset.  A reset is made when there  *)
(* is something to reset.                                                  *)
(***************************************************************************)
MaxBurst == 11

SearchInBurst ==
    /\ Len(allowedTimes) < MaxBurst
    /\ searchQuestions(qKind, arrayOf(<<4, 2, 1>>), FALSE)
    /\ allowedTimes' = IF call'.allowed THEN Append(allowedTimes, now)
                       ELSE allowedTimes
    /\ sinceReset' = IF call'.allowed
                     THEN [sinceReset EXCEPT !.attempts = @ + 1]
                     ELSE sinceReset
    /\ UNCHANGED dedup
    /\ UNCHANGED outside

ResetInBurst ==
    /\ requestCount > 0
    /\ resetFuseSearchErrors
    /\ sinceReset' = [happened |-> TRUE,
                      throttled |-> call.op = "search" /\ ~call.allowed,
                      attempts |-> 0]
    /\ UNCHANGED <<dedup, allowedTimes>>
    /\ UNCHANGED outside

NextBurst == SearchInBurst \/ ResetInBurst \/ Tick

SpecBurst == InitGood /\ [][NextBurst]_vars

(***************************************************************************)
(* The favorites under concurrent toggles.                                 *)
(***************************************************************************)
searchModule ==
    <<corpus, fuse, loadReports, now, lastRequestTime, requestCount,
      reportedErrors, sessionFailures, call, sanitized>>

Toggle ==
    /\ \E questionId \in Questions : toggleSaveQuestion(questionId)
    /\ UNCHANGED <<searchModule, histories>>
    /\ UNCHANGED <<screenState, highlightState, appState, loggerState>>

WriteDone ==
    /\ \E i \in 1..Len(pendingWrites) : setItemResolves(i)
    /\ UNCHANGED <<searchModule, histories>>
    /\ UNCHANGED <<screenState, highlightState, appState, loggerState>>

WriteFailed ==
    /\ \E i \in 1..Len(pendingWrites), quota \in BOOLEAN :
          setItemRejects(i, quota)
    /\ UNCHANGED <<searchModule, histories>>
    /\ UNCHANGED <<screenState, highlightState, appState, loggerState>>

NextFavorites == Toggle \/ WriteDone \/ WriteFailed

SpecFavorites == InitGood /\ [][NextFavorites]_vars

(***************************************************************************)
(* The search screen: typing, submitting, clearing, timers and the clock.  *)
(***************************************************************************)
TypeText ==
    /\ \E query \in TypedTexts : handleSearchInput(query)
    /\ UNCHANGED <<searchModule, histories>>
    /\ UNCHANGED <<favoritesState, highlightState, appState, loggerState>>

Submit ==
    /\ handleSubmitSearch
    /\ UNCHANGED <<searchModule, histories>>
    /\ UNCHANGED <<favoritesState, highlightState, appState, loggerState>>

SearchTimeout ==
    /\ searchTimeout
    /\ UNCHANGED histories
    /\ UNCHANGED <<favoritesState, highlightState, appState, loggerState>>

Clear ==
    /\ handleClearSearch
    /\ UNCHANGED <<searchModule, histories>>
    /\ UNCHANGED <<favoritesState, highlightState, appState, loggerState>>

NextScreen == TypeText \/ Submit \/ SearchTimeout \/ Clear \/ Tick

SpecScreen == InitGood /\ [][NextScreen]_vars

(***************************************************************************)
(* The highlight of the favorites tab.  A timer that is due fires and the  *)
(* clock goes on: both are weakly fair.                                    *)
(***************************************************************************)
TriggerHighlight ==
    /\ triggerHighlight
    /\ UNCHANGED <<searchModule, histories>>
    /\ UNCHANGED <<favoritesState, screenState, appState, loggerState>>

HighlightTimeout ==
    /\ \E timer \in highlightTimers : highlightTimeout(timer)
    /\ UNCHANGED <<searchModule, histories>>
    /\ UNCHANGED <<favoritesState, screenState, appState, loggerState>>

NextHighlight == TriggerHighlight \/ HighlightTimeout \/ TickHighlight

SpecHighlight ==
    /\ InitGood
    /\ [][NextHighlight]_vars
    /\ WF_vars(HighlightTimeout)
    /\ WF_vars(TickHighlight)

(***************************************************************************)
(* The launches of the app.                                                *)
(***************************************************************************)
Launch ==
    /\ launch
    /\ UNCHANGED <<searchModule, histories>>
    /\ UNCHANGED <<favoritesState, screenState, highlightState, loggerState>>

LoadFonts ==
    /\ loadFonts
    /\ UNCHANGED <<searchModule, histories>>
    /\ UNCHANGED <<favoritesState, screenState, highlightState, loggerState>>

SplashTimeout ==
    /\ splashTimeout
    /\ UNCHANGED <<searchModule, histories>>
    /\ UNCHANGED <<favoritesState, screenState, highlightState, loggerState>>

ServerAnswers ==
    /\ \E versionOk \in BOOLEAN, setItemThrows \in BOOLEAN :
          checkForUpdateTry(versionOk, setItemThrows)
    /\ UNCHANGED <<searchModule, histories>>
    /\ UNCHANGED <<favoritesState, screenState, highlightState, loggerState>>

FetchThrows ==
    /\ fetchThrows
    /\ UNCHANGED <<searchModule, histories>>
    /\ UNCHANGED <<favoritesState, screenState, highlightState, loggerState>>

OfflineFallback ==
    /\ \E readable \in BOOLEAN : checkForUpdateCatch(readable)
    /\ UNCHANGED <<searchModule, histories>>
    /\ UNCHANGED <<favoritesState, screenState, highlightState, loggerState>>

NextApp ==
    \/ Launch
    \/ LoadFonts
    \/ SplashTimeout
    \/ ServerAnswers
    \/ FetchThrows
    \/ OfflineFallback
    \/ TickApp

SpecApp == InitGood /\ [][NextApp]_vars

(***************************************************************************)
(* The logger on its own, offered as many distinct keys as it takes to     *)
(* fill its Set: key n is the n-th distinct key of the session.  A call    *)
(* offers the next unseen key, or the oldest or the newest recorded key.   *)
(***************************************************************************)
MaxLogKeys == 502

LogKeys ==
    IF errorCache = <<>> THEN {1}
    ELSE ({errorCache[Len(errorCache)] + 1} \cap 1..MaxLogKeys)
             \cup {errorCache[1], errorCache[Len(errorCache)]}

LogError ==
    /\ \E key \in LogKeys, isCritical \in BOOLEAN,
          allowDuplicates \in BOOLEAN :
          logError(key, isCritical, allowDuplicates, FALSE)
    /\ UNCHANGED captured
    /\ UNCHANGED <<searchModule, histories>>
    /\ UNCHANGED <<favoritesState, screenState, highlightState, appState>>

ResetErrorSession ==
    /\ resetErrorSession
    /\ captured' = <<>>
    /\ UNCHANGED <<searchModule, histories>>
    /\ UNCHANGED <<favoritesState, screenState, highlightState, appState>>

NextLog == LogError \/ ResetErrorSession

SpecLog == InitGood /\ [][NextLog]_vars

(***************************************************************************)
(* The search module and the logger together: a search whose catch block   *)
(* finds its key new hands the exception of the matcher to logDataError.   *)
(* captured lists the keys captured by Sentry since the last               *)
(* resetErrorSession.                                                      *)
(***************************************************************************)
MaxCaptured == 3

ThrownErrors ==
    {[name |-> "TypeError", message |-> <<"boom">>],
     [name |-> "Error", message |-> <<"user_7", "failed">>],
     [name |-> "Error", message |-> <<"user_8", "failed">>]}

noError == [name |-> "none", message |-> <<>>]

MonitorOutcomes ==
    {[error |-> noError, m |-> arrayOf(<<4, 2, 1>>)]}
        \cup {[error |-> error, m |-> matcherThrows] : error \in ThrownErrors}

SearchMonitored ==
    /\ Len(captured) < MaxCaptured
    /\ \E outcome \in MonitorOutcomes, sentryThrows \in BOOLEAN :
          /\ searchQuestions(qMeinKind, outcome.m, FALSE)
          /\ IF call'.logged
             THEN /\ logDataError(outcome.error, sentryThrows)
                  /\ captured' = IF logCall'.captured
                                 THEN Append(captured, logCall'.key)
                                 ELSE captured
             ELSE /\ logCall' = noLogCall
                  /\ UNCHANGED <<errorCache, captured>>
    /\ UNCHANGED histories
    /\ UNCHANGED <<favoritesState, screenState, highlightState, appState>>

ResetSearch ==
    /\ resetFuseSearchErrors
    /\ logCall' = noLogCall
    /\ UNCHANGED <<errorCache, captured>>
    /\ UNCHANGED histories
    /\ UNCHANGED <<favoritesState, screenState, highlightState, appState>>

ResetLogger ==
    /\ resetErrorSession
    /\ captured' = <<>>
    /\ UNCHANGED <<searchModule, histories>>
    /\ UNCHANGED <<favoritesState, screenState, highlightState, appState>>

NextMonitor == SearchMonitored \/ ResetSearch \/ ResetLogger

SpecMonitor == InitGood /\ [][NextMonitor]_vars

(***************************************************************************)
(* Properties                                                              *)
(***************************************************************************)
isSearch == call.op = "search"

invalidInput(query) ==
    \/ query.type # "string"
    \/ query.str = <<>>
    \/ ~validateQuery(query).truthy

positionIn(results, ref) == CHOOSE i \in 1..Len(results) : results[i] = ref

minOf(a, b) == IF a < b THEN a ELSE b

(* C1: no exception leaves searchQuestions, whatever the query, the state  *)
(* of the rate limiter and of the error cache and whatever the matcher     *)
(* does; the array returned is empty whenever the call was throttled, the  *)
(* input was invalid or a failure occurred.                                *)
C1_NeverThrows ==
    isSearch =>
        /\ ~call.threw
        /\ (\/ ~call.allowed
            \/ invalidInput(call.query)
            \/ call.exception
            \/ call.matcher.kind \in {"throw", "nonarray"})
           => call.result = <<>>

C1_Witness ==
    /\ isSearch
    /\ call.matcher.kind = "throw"
    /\ call.exception
    /\ ~call.threw
    /\ call.result = <<>>
    /\ requestCount = MAX_REQUESTS_PER_SECOND

(* C2: the list returned by searchQuestions has at most 25 elements, for   *)
(* every query and every list of matcher results.                          *)
C2_AtMost25 == isSearch => Len(call.result) <= 25

C2_Witness ==
    /\ isSearch
    /\ Len(call.matcher.results) > 25
    /\ ~hasExact(call.matcher.results, call.optimizedQuery)
    /\ Len(call.result) = 25

(* C3: when the matcher produces more than 25 candidates, the search       *)
(* returns exactly 25 records, with and without a promoted exact match.    *)
C3_CapExact ==
    (isSearch /\ call.matcher.kind = "array"
              /\ Len(call.matcher.results) > 25)
        => Len(call.result) = 25

C3_Witness ==
    /\ isSearch
    /\ Len(call.matcher.results) > 25
    /\ hasExact(call.matcher.results, call.optimizedQuery)
    /\ ~hasExact(slice(call.matcher.results, 25), call.optimizedQuery)
    /\ Len(call.result) = 25

(* C4 as stated: every entry among the matches whose synonym questions     *)
(* contain the preprocessed query as a literal substring is result[0].     *)
C4_EveryExactFirst ==
    (isSearch /\ call.matcher.kind = "array")
        => \A i \in 1..Len(call.matcher.results) :
              isExact(call.matcher.results[i], call.optimizedQuery)
                 => /\ call.result # <<>>
                    /\ call.result[1] = call.matcher.results[i]

(* C4 amended: when the search is not throttled and the matches contain    *)
(* an entry whose synonym questions contain the preprocessed query as a    *)
(* literal substring, result[0] is the first such entry in the relevance   *)
(* order of the matcher.                                                   *)
C4_FirstExactFirst ==
    (isSearch /\ call.matcher.kind = "array")
        => \A i \in 1..Len(call.matcher.results) :
              (/\ isExact(call.matcher.results[i], call.optimizedQuery)
               /\ \A j \in 1..(i - 1) :
                     ~isExact(call.matcher.results[j], call.optimizedQuery))
                 => /\ call.result # <<>>
                    /\ call.result[1] = call.matcher.results[i]

C4_Witness ==
    /\ isSearch
    /\ call.matcher.kind = "array"
    /\ Len(call.matcher.results) >= 3
    /\ ~isExact(call.matcher.results[1], call.optimizedQuery)
    /\ isExact(call.matcher.results[2], call.optimizedQuery)
    /\ isExact(call.matcher.results[3], call.optimizedQuery)
    /\ call.result[1] = call.matcher.results[2]

(* C5: with an exact match among the matches the output is that record     *)
(* followed by the first (up to) 24 other matches in their relevance       *)
(* order; without one it is the first (up to) 25 matches.  The exact match *)
(* is looked for among all matches, not only the first 25.                 *)
C5_Composition ==
    (isSearch /\ call.matcher.kind = "array")
        => LET R == call.matcher.results
               out == call.result
           IN  IF \E i \in 1..Len(R) : isExact(R[i], call.optimizedQuery)
               THEN /\ Len(out) = 1 + minOf(Len(R) - 1, 24)
                    /\ isExact(out[1], call.optimizedQuery)
                    /\ \A i \in 2..Len(out) :
                          out[i] = IF i - 1 < positionIn(R, out[1])
                                   THEN R[i - 1] ELSE R[i]
               ELSE /\ Len(out) = minOf(Len(R), 25)
                    /\ \A i \in 1..Len(out) : out[i] = R[i]

C5_Witness ==
    /\ isSearch
    /\ call.matcher.kind = "array"
    /\ Len(call.matcher.results) > 25
    /\ isExact(call.matcher.results[26], call.optimizedQuery)
    /\ call.result[1] = call.matcher.results[26]
    /\ call.result[25] = call.matcher.results[24]

(* C6: within a window the first 5 rate-limit checks allow the request and *)
(* every further one is refused; the first check made more than 1000 ms    *)
(* after the window start is allowed, restarts the window at that time and *)
(* leaves the counter at 1; a check made exactly 1000 ms after the window  *)
(* start does not restart the window.                                      *)
C6_RateLimitBoundary ==
    [][call'.op = "search" =>
          IF now - lastRequestTime > 1000
          THEN /\ call'.allowed
               /\ lastRequestTime' = now
               /\ requestCount' = 1
          ELSE /\ lastRequestTime' = lastRequestTime
               /\ requestCount' = requestCount + 1
               /\ call'.allowed <=> (requestCount' <= 5)]_vars

C6_Witness ==
    /\ isSearch
    /\ ~call.allowed
    /\ requestCount = 6
    /\ now = lastRequestTime + 1000

(* C7: a search refused by the rate limiter returns the empty list, does   *)
(* not call the fault reporter, adds no key to the error cache and does    *)
(* not call the matcher; only the request counter changes.                 *)
C7_SilentThrottle ==
    [][(call'.op = "search" /\ ~call'.allowed) =>
          /\ call'.result = <<>>
          /\ ~call'.threw
          /\ ~call'.logged
          /\ call'.matcher.kind = "none"
          /\ reportedErrors' = reportedErrors
          /\ lastRequestTime' = lastRequestTime
          /\ requestCount' = requestCount + 1
          /\ UNCHANGED <<now, fuse, corpus>>]_vars

C7_Witness ==
    /\ isSearch
    /\ ~call.allowed
    /\ call.query = qMeinKind
    /\ reportedErrors # <<>>
    /\ requestCount = MaxRequestCount

(* C8: every negation word that is a word of the sanitized lower-cased     *)
(* query is a word of the preprocessed query, on the stopword list or not; *)
(* every other word is kept iff it is not on the stopword list.            *)
negations == {wNicht, wKein, wKeine, wOhne, wNein}

C8_NegationPreserved ==
    (isSearch /\ call.allowed /\ validateQuery(call.query).truthy)
        => LET inWords == split(toLowerCase(validateQuery(call.query).str))
               outWords == split(call.optimizedQuery)
               isIn(ws, w) == \E i \in 1..Len(ws) : ws[i] = w
           IN  /\ \A i \in 1..Len(inWords) :
                     inWords[i] \in negations => isIn(outWords, inWords[i])
               /\ ~call.preFailed =>
                     /\ \A i \in 1..Len(inWords) :
                           inWords[i] \notin negations =>
                              (isIn(outWords, inWords[i])
                                 <=> ~isIn(stopwords, inWords[i]))
                     /\ \A i \in 1..Len(outWords) :
                           outWords[i] # <<>> => isIn(inWords, outWords[i])

C8_Witness ==
    /\ isSearch
    /\ ~call.preFailed
    /\ call.query = Str(<<"N", "i", "c", "h", "t">> \o <<"\t", " ">> \o wMein)
    /\ call.optimizedQuery = wNicht

C10_Idempotent ==
    sanitized.op = "refeed" => sanitized.output = sanitized.input

(* C11: every string returned by the sanitizer for a string input has at   *)
(* most 300 characters and at most 30 whitespace-separated words, contains *)
(* none of <, >, & nor a stripped control character, and has no leading or *)
(* trailing white space.                                                   *)
C11_OutputBounds ==
    (sanitized.op # "none" /\ sanitized.input.type = "string"
        /\ sanitized.output.type = "string")
        => LET out == sanitized.output.str
           IN  /\ Len(out) <= 300
               /\ Len(split(out)) <= 30
               /\ \A i \in 1..Len(out) : out[i] \notin {"<", ">", "&", "\f"}
               /\ out # <<>> => /\ out[1] \notin WhiteSpace
                                /\ out[Len(out)] \notin WhiteSpace

C11_Witness ==
    /\ sanitized.op = "validateQuery"
    /\ sanitized.input = Str(manyWords)
    /\ Len(split(sanitized.input.str)) = 31
    /\ Len(split(sanitized.output.str)) = 30

(* C12: a search in which the matcher throws returns the empty list; the   *)
(* exception is handed to logDataError when no search has failed with the  *)
(* same error key since the module was loaded or last reset, and is not    *)
(* handed to it on any later failure with that key.                        *)
C12_ReportedOnce ==
    [][(call'.op = "search" /\ call'.exception) =>
          /\ call'.result = <<>>
          /\ ~call'.threw
          /\ call'.logged <=> errorKeyOf(call'.query) \notin sessionFailures
          /\ errorKeyOf(call'.query) \in sessionFailures']_vars

C12_Witness ==
    /\ isSearch
    /\ call.exception
    /\ call.matcher = matcherThrows
    /\ ~call.logged
    /\ call.result = <<>>
    /\ errorKeyOf(call.query) \in sessionFailures

(* The step at which a key was last admitted to the cache, and the cached  *)
(* key that was admitted first.                                            *)
admittedAt(key) ==
    CHOOSE i \in 1..Len(dedup.admitted) :
        /\ dedup.admitted[i] = key
        /\ \A j \in (i + 1)..Len(dedup.admitted) : dedup.admitted[j] # key

firstAdmitted ==
    CHOOSE k \in cachedKeys(reportedErrors) :
        \A l \in cachedKeys(reportedErrors) : admittedAt(k) <= admittedAt(l)

(* C13: the error cache never holds more than 50 keys; a key is reported   *)
(* exactly when it is not in the cache; when the cache holds 50 keys and a *)
(* key that is not in it arrives, the cache loses exactly the key that was *)
(* admitted first (a repeated occurrence admits nothing), so that this key *)
(* is reportable again and the other 49 stay suppressed; in every other    *)
(* case the cache loses nothing.                                           *)
C13_EvictsOldest ==
    [][dedup'.op = "report" =>
          LET key == dedup'.key
              fresh == key \notin cachedKeys(reportedErrors)
              full == Len(reportedErrors) = MAX_ERROR_CACHE_SIZE
          IN  /\ Len(reportedErrors') <= MAX_ERROR_CACHE_SIZE
              /\ Cardinality(cachedKeys(reportedErrors')) = Len(reportedErrors')
              /\ dedup'.reported <=> fresh
              /\ cachedKeys(reportedErrors') =
                    (cachedKeys(reportedErrors)
                        \ (IF full /\ fresh THEN {firstAdmitted} ELSE {}))
                    \cup {key}]_vars

C13_Witness ==
    /\ dedup.op = "report"
    /\ dedup.reported
    /\ dedup.key = 1
    /\ Len(dedup.admitted) = MAX_ERROR_CACHE_SIZE + 2
    /\ Len(reportedErrors) = MAX_ERROR_CACHE_SIZE
    /\ ~hasKey(reportedErrors, 2)

(* C14: a search whose query is not a string, or whose query is empty      *)
(* after sanitization and preprocessing, returns the empty list and does   *)
(* not call the fault reporter, in every state of the session and however  *)
(* often it is repeated.                                                   *)
inputError ==
    /\ isSearch
    /\ \/ call.query.type # "string"
       \/ call.allowed /\ call.optimizedQuery = <<>>

C14_InputErrorsSilent ==
    inputError =>
        /\ call.result = <<>>
        /\ ~call.threw
        /\ ~call.logged
        /\ ~call.preLogged

C14_Witness ==
    /\ inputError
    /\ call.allowed
    /\ call.query = qUnd
    /\ hasKey(reportedErrors, "FuseSearch-invalidQuery")
    /\ requestCount > 1

(* C15: when the matching engine could not be built while the module was   *)
(* loaded, that failure was handed to the fault reporter exactly once, and *)
(* every search of the session returns the empty list, throws nothing and  *)
(* hands nothing more to the fault reporter.                               *)
timesReported(reports, method) ==
    Cardinality({i \in 1..Len(reports) : reports[i] = method})

C15_InitFailure ==
    fuse # "Fuse" =>
        /\ timesReported(loadReports, "fuseInitialization") = 1
        /\ isSearch => /\ call.result = <<>>
                       /\ ~call.threw
                       /\ ~call.logged

C15_Witness ==
    /\ fuse # "Fuse"
    /\ isSearch
    /\ call.allowed
    /\ call.query = qMeinKind
    /\ call.optimizedQuery = wKind
    /\ requestCount = 3
    /\ call.result = <<>>

hasNullEntry(raw) == \E i \in 1..Len(raw) : raw[i].kind = "null"

(* C16 as stated: with a corpus that has entries without fields or null    *)
(* entries, no search throws and every search returns the empty list.      *)
C16_MalformedReturnsEmpty ==
    (isMalformed(rawData) /\ isSearch) =>
        /\ ~call.threw
        /\ call.result = <<>>

(* C16 as the code has it: with such a corpus no search throws; when the   *)
(* corpus has a null entry the index is empty, the failure was reported    *)
(* while loading and every search returns the empty list; when entries     *)
(* only lack fields, they are indexed without synonym questions and a      *)
(* search returns entries of the index.                                    *)
C16_MalformedNeverThrows ==
    isMalformed(rawData) =>
        /\ hasNullEntry(rawData) =>
              /\ indexData = <<>>
              /\ timesReported(loadReports, "indexDataPreprocessing") = 1
        /\ ~hasNullEntry(rawData) =>
              /\ Len(indexData) = Len(rawData)
              /\ timesReported(loadReports, "indexDataPreprocessing") = 0
        /\ isSearch =>
              /\ ~call.threw
              /\ hasNullEntry(rawData) => call.result = <<>>
              /\ \A i \in 1..Len(call.result) :
                    call.result[i] \in 1..Len(indexData)

C16_Witness ==
    /\ hasNullEntry(rawData)
    /\ fuse = "Fuse"
    /\ isSearch
    /\ call.allowed
    /\ call.optimizedQuery = wKind
    /\ call.matcher.kind = "array"
    /\ call.result = <<>>

(* C17: resetFuseSearchErrors leaves the error cache empty, the request    *)
(* counter at 0 and the window start at 0, from any state, a throttled     *)
(* window included; each of the first 5 searches after it is let through   *)
(* by the rate limiter.                                                    *)
C17_ResetClearsAll ==
    /\ call.op = "reset" =>
          /\ reportedErrors = <<>>
          /\ requestCount = 0
          /\ lastRequestTime = 0
    /\ (isSearch /\ sinceReset.happened
           /\ sinceReset.attempts \in 1..MAX_REQUESTS_PER_SECOND)
          => call.allowed

C17_Witness ==
    /\ isSearch
    /\ sinceReset.happened
    /\ sinceReset.throttled
    /\ sinceReset.attempts = MAX_REQUESTS_PER_SECOND
    /\ call.allowed
    /\ now = StartTime

(* A query that the sanitizer rejects or that preprocesses to the empty    *)
(* string.                                                                 *)
rejectedQuery(query) ==
    \/ ~query.truthy
    \/ query.type # "string"
    \/ preprocessQuery(query, FALSE).value = <<>>

(* C18 as stated: the rate limiter comes after the sanitizer and the       *)
(* preprocessor, so a search with a rejected query leaves the request      *)
(* counter and the window as they were.                                    *)
C18_RejectedTakesNoSlot ==
    [][(call'.op = "search" /\ rejectedQuery(call'.query)
            /\ ~call'.preFailed) =>
          /\ requestCount' = requestCount
          /\ lastRequestTime' = lastRequestTime]_vars

(* C18 as the code has it: the rate limiter is the first stage; every      *)
(* search, whatever its query, takes a slot of the window (the counter     *)
(* restarts at 1 in a new window and grows by 1 otherwise) and is let      *)
(* through exactly when the counter is at most 5; a refused search is not  *)
(* sanitized or preprocessed and records no error key.                     *)
C18_RateGateFirst ==
    [][call'.op = "search" =>
          /\ requestCount' = IF now - lastRequestTime > WindowMs THEN 1
                             ELSE requestCount + 1
          /\ call'.allowed <=> requestCount' <= MAX_REQUESTS_PER_SECOND
          /\ ~call'.allowed =>
                /\ call'.optimizedQuery = <<>>
                /\ reportedErrors' = reportedErrors]_vars

C18_Witness ==
    /\ isSearch
    /\ call.query = undefined
    /\ call.allowed
    /\ requestCount = MAX_REQUESTS_PER_SECOND
    /\ lastRequestTime = now

(* C19: when the stopword filtering fails inside preprocessQuery, the      *)
(* preprocessed query is the sanitized query in lower case, unfiltered,    *)
(* and the failure is handed to the fault reporter when its key            *)
(* FuseSearch-preprocessQuery has not been recorded yet, and only then.    *)
C19_PreprocessorFailureLogged ==
    [][(call'.op = "search" /\ call'.preFailed) =>
          /\ call'.optimizedQuery
                = toLowerCase(validateQuery(call'.query).str)
          /\ call'.preLogged
                <=> ~hasKey(reportedErrors, "FuseSearch-preprocessQuery")]_vars

(* The searches let through at or after instant t, and the largest number  *)
(* of searches let through within a span of WindowMs milliseconds.         *)
allowedSince(t) ==
    Cardinality({i \in 1..Len(allowedTimes) : allowedTimes[i] >= t})

burstWithin(span) ==
    \E i, j \in 1..Len(allowedTimes) :
        /\ j - i + 1 > MAX_REQUESTS_PER_SECOND
        /\ allowedTimes[j] - allowedTimes[i] <= span

(* C20: within one window of the rate limiter (from the instant at which   *)
(* the window was opened) never more than 5 searches are let through; the  *)
(* counter being per window, more than 5 can be let through within 1000 ms *)
(* across the start of a new window.                                       *)
C20_FixedWindow ==
    /\ allowedSince(lastRequestTime) <= MAX_REQUESTS_PER_SECOND
    /\ \A i \in 1..Len(allowedTimes) : allowedTimes[i] <= now
    /\ burstWithin(WindowMs) =>
          \E i \in 1..Len(allowedTimes) : allowedTimes[i] < lastRequestTime

C20_Witness ==
    /\ burstWithin(1)
    /\ Len(allowedTimes) = 2 * MAX_REQUESTS_PER_SECOND - 1
    /\ allowedTimes[1] = StartTime
    /\ now = StartTime + WindowMs + 1
    /\ isSearch
    /\ call.allowed

(* C22: when the write of a toggle of question q fails, only that toggle   *)
(* is undone in the favorites in memory: q gets back the flag it had       *)
(* before the toggle and every other question keeps its flag, whatever     *)
(* other toggles were made while the write was pending.                    *)
C22_RollbackOnlyThatToggle ==
    [][favoritesCall'.op = "rejected" =>
          \A q \in Questions \ {favoritesCall'.questionId} :
              savedQuestions'[q] = savedQuestions[q]]_vars

(* C23: submissions are debounced by 800 ms: a submission leads to a call  *)
(* of searchQuestions only if no later submission was made less than       *)
(* 800 ms after it.                                                        *)
C23_OnlyLastOfBurstSearches ==
    [][screenCall'.op = "search" =>
          \A i \in 2..Len(timers) :
              timers[i].submittedAt - timers[1].submittedAt >= DebounceMs]_vars

(* What a search of the text returns when it is not throttled.             *)
searchOutcome(query) ==
    catchBlock(Str(query),
               tryBlock(Str(query), <<>>, fuse, matchOf(query), FALSE)).value

(* C24: whenever the loading indicator is off and a result list or the     *)
(* no-results message is shown, the results held are the outcome of        *)
(* searching the query named in the header.                                *)
C24_ShownIsOutcomeOfHeader ==
    (~loading /\ searchQuery # <<>> /\ lastSubmittedQuery # <<>>)
        => searchResults = searchOutcome(lastSubmittedQuery)

storedCheckValid(t) ==
    /\ lastUpdateCheck.kind = "saved"
    /\ lastUpdateCheck.versionOk
    /\ t - lastUpdateCheck.timestamp <= MAX_OFFLINE_DAYS * DayMs

(* C26: when the update check did not reach the server, updateRequired is  *)
(* set unless a stored check could be read whose versionOk is true and     *)
(* whose timestamp is at most 7 days old, and the content is rendered only *)
(* in that case.                                                           *)
C26_OfflineGate ==
    (updateCheck.step = "done" /\ ~updateCheck.reached) =>
        /\ updateRequired =
              ~(updateCheck.storage = "read"
                    /\ storedCheckValid(updateCheck.checkedAt))
        /\ navigationRendered =>
              (updateCheck.storage = "read"
                   /\ storedCheckValid(updateCheck.checkedAt))

(* The searches let through at the instants of a sequence that lie in      *)
(* [t, t + WindowMs].                                                      *)
allowedWithin(times, t) ==
    Cardinality({i \in 1..Len(times) : times[i] >= t /\ times[i] <= t + WindowMs})

(* The instants of the searches let through since the last reset.          *)
allowedSinceReset ==
    SubSeq(allowedTimes, Len(allowedTimes) - sinceReset.attempts + 1,
           Len(allowedTimes))

(* C27 as stated: in every execution and for every time t at most 10       *)
(* searches are let through at instants in [t, t + 1000 ms].               *)
C27_AtMostTenPerSecond ==
    \A i \in 1..Len(allowedTimes) :
        allowedWithin(allowedTimes, allowedTimes[i])
            <= 2 * MAX_REQUESTS_PER_SECOND

(* C27: between two resets of the module, for every time t at most 10      *)
(* searches are let through at instants in [t, t + 1000 ms].               *)
C27_AtMostTenBetweenResets ==
    \A i \in 1..Len(allowedSinceReset) :
        allowedWithin(allowedSinceReset, allowedSinceReset[i])
            <= 2 * MAX_REQUESTS_PER_SECOND

(* Searches of two windows lie within 1000 ms of each other after a reset. *)
C27_Witness ==
    /\ sinceReset.happened
    /\ isSearch
    /\ call.allowed
    /\ \E i \in 1..Len(allowedSinceReset) :
          /\ allowedSinceReset[i] < lastRequestTime
          /\ allowedWithin(allowedSinceReset, allowedSinceReset[i])
                = 2 * MAX_REQUESTS_PER_SECOND - 1

(* The values of typeof, and the keys that the search module can record.   *)
JsTypes ==
    {"undefined", "object", "boolean", "number", "bigint", "string",
     "symbol", "function"}

ErrorKeys ==
    {"FuseSearch-preprocessQuery", "FuseSearch-invalidQuery",
     "FuseSearch-fuseNotInitialized", "FuseSearch-invalidResults"}
        \cup {"FuseSearch-searchQuestions-" \o type : type \in JsTypes}

(* C28: the keys recorded by the search module belong to a fixed set of    *)
(* fewer than 50 keys, so the cache holds fewer than 50 keys in every      *)
(* reachable state and no search finds it full.                            *)
C28_CacheNeverFull ==
    /\ Cardinality(ErrorKeys) < MAX_ERROR_CACHE_SIZE
    /\ \A i \in 1..Len(reportedErrors) : reportedErrors[i] \in ErrorKeys
    /\ Len(reportedErrors) < MAX_ERROR_CACHE_SIZE

(* Every key that a search of a module with a matcher can record is in     *)
(* the cache.                                                              *)
C28_Witness ==
    /\ isSearch
    /\ call.exception
    /\ Len(reportedErrors) = 4
    /\ hasKey(reportedErrors, "FuseSearch-searchQuestions-string")
    /\ hasKey(reportedErrors, "FuseSearch-invalidResults")

(* C29: logError deletes a key from its Set only when it admits a key that *)
(* is not yet recorded; a call for a recorded key and a call for an error  *)
(* that is not critical leave the set of recorded keys as it is.           *)
C29_EvictsOnlyOnAdmission ==
    [][logCall'.op = "logError" =>
          /\ (cachedKeys(errorCache) \ cachedKeys(errorCache') # {}) =>
                (~hasKey(errorCache, logCall'.key)
                     /\ hasKey(errorCache', logCall'.key))
          /\ (hasKey(errorCache, logCall'.key) \/ ~logCall'.critical) =>
                cachedKeys(errorCache') = cachedKeys(errorCache)]_vars

timesCaptured(key) ==
    Cardinality({i \in 1..Len(captured) : captured[i] = key})

(* C30: between two calls of resetErrorSession a search failure with the   *)
(* same error name and anonymized message is captured at most once, also   *)
(* when resetFuseSearchErrors makes the search module hand it over again.  *)
C30_CapturedOnce ==
    \A i \in 1..Len(captured) : timesCaptured(captured[i]) <= 1

(* After a reset of the search module, a failure whose message differs     *)
(* from a captured one in the user id only is handed over again and is     *)
(* not captured.                                                           *)
C30_Witness ==
    /\ isSearch
    /\ call.logged
    /\ logCall.op = "logError"
    /\ ~logCall.captured
    /\ timesCaptured(logCall.key) = 1
    /\ logCall.key = <<"Error", "-", "user_[ID]", "failed">>

====
